---------------------------- MODULE Spec2Model ----------------------------
(***************************************************************************)
(* A model of the Tencent COS storage adapter for Ghost (src/src/index.js, *)
(* second class Store, lines 183-583).                                     *)
(*                                                                         *)
(* JavaScript strings are sequences of one-character strings, so that      *)
(* startsWith, substring, indexOf, toLowerCase and the regular expressions *)
(* of the code are computed character by character.  JavaScript values     *)
(* that may be undefined or boolean (environment variables, configuration  *)
(* fields, this.host) are records [t |-> type, v |-> value].               *)
(***************************************************************************)
EXTENDS Integers, Sequences, FiniteSets, TLC

VARIABLES env, config, self, store, last, lastSave, delCalled, delDone, ops,
          pc, req, res, nextCalls, thrown, trace, srv, served, writes

vars == <<env, config, self, store, last, lastSave, delCalled, delDone, ops,
          pc, req, res, nextCalls, thrown, trace, srv, served, writes>>

apiVars == <<last, lastSave, delCalled, delDone, ops>>
serveVars == <<pc, req, res, nextCalls, thrown, trace, srv, served, writes>>

----------------------------------------------------------------------------
(* Characters and strings                                                  *)

LowerCase == <<"a","b","c","d","e","f","g","h","i","j","k","l","m",
               "n","o","p","q","r","s","t","u","v","w","x","y","z">>
UpperCase == <<"A","B","C","D","E","F","G","H","I","J","K","L","M",
               "N","O","P","Q","R","S","T","U","V","W","X","Y","Z">>
Digit == {"0","1","2","3","4","5","6","7","8","9"}

Range(s) == {s[i] : i \in DOMAIN s}

LowerOf == [c \in Range(UpperCase) |->
               LowerCase[CHOOSE i \in DOMAIN UpperCase : UpperCase[i] = c]]
UpperOf == [c \in Range(LowerCase) |->
               UpperCase[CHOOSE i \in DOMAIN LowerCase : LowerCase[i] = c]]

\* String.prototype.toLowerCase / toUpperCase on one character
toLowerChar(c) == IF c \in DOMAIN LowerOf THEN LowerOf[c] ELSE c

toUpperChar(c) == IF c \in DOMAIN UpperOf THEN UpperOf[c] ELSE c

toLowerCase(s) == [i \in 1..Len(s) |-> toLowerChar(s[i])]

\* the class \w of JavaScript regular expressions: [A-Za-z0-9_]
WordChars == Range(LowerCase) \cup Range(UpperCase) \cup Digit \cup {"_"}
IsWordChar(c) == c \in WordChars

\* s.indexOf('/') : zero-based position of the first slash, -1 when absent
RECURSIVE indexOfSlashFrom(_, _)
indexOfSlashFrom(s, i) ==
    IF i > Len(s) THEN -1
    ELSE IF s[i] = "/" THEN i - 1
    ELSE indexOfSlashFrom(s, i + 1)

indexOfSlash(s) == indexOfSlashFrom(s, 1)

\* s.substring(n) for 0 <= n
substring(s, n) == IF n >= Len(s) THEN <<>> ELSE SubSeq(s, n + 1, Len(s))

\* s.substring(0, n); a negative n counts as 0
substringTo(s, n) == IF n <= 0 THEN <<>> ELSE SubSeq(s, 1, IF n > Len(s) THEN Len(s) ELSE n)

\* s.startsWith(p)
startsWith(s, p) == Len(p) <= Len(s) /\ SubSeq(s, 1, Len(p)) = p

\* s.includes(p)
includes(s, p) == \E i \in 0..(Len(s) - Len(p)) : SubSeq(s, i + 1, i + Len(p)) = p

\* s.trim() on the whitespace of the alphabet (the space)
RECURSIVE trimLeft(_)
trimLeft(s) == IF s # <<>> /\ Head(s) = " " THEN trimLeft(Tail(s)) ELSE s
RECURSIVE trimRight(_)
trimRight(s) ==
    IF s # <<>> /\ s[Len(s)] = " " THEN trimRight(SubSeq(s, 1, Len(s) - 1)) ELSE s
trim(s) == trimRight(trimLeft(s))

stripLeadingSlash(s) == IF indexOfSlash(s) = 0 THEN substring(s, 1) ELSE s

stripEndingSlash(s) ==
    IF indexOfSlash(s) = Len(s) - 1 THEN substringTo(s, Len(s) - 1) ELSE s

\* path.replace(/\/$|\\$/, '') : one trailing slash or backslash removed
removeTrailingSlash(s) ==
    IF s # <<>> /\ s[Len(s)] \in {"/", "\\"} THEN SubSeq(s, 1, Len(s) - 1) ELSE s

----------------------------------------------------------------------------
(* path.join of Node (POSIX): the non-empty arguments are joined with "/"  *)
(* and the result is normalised: runs of slashes collapse, "." segments    *)
(* drop, ".." removes the segment before it, a trailing slash is kept.     *)

RECURSIVE splitSlash(_)
splitSlash(s) ==
    LET at == indexOfSlash(s)
    IN  IF at = -1 THEN <<s>>
        ELSE <<substringTo(s, at)>> \o splitSlash(substring(s, at + 1))

RECURSIVE joinSlash(_)
joinSlash(segs) ==
    IF segs = <<>> THEN <<>>
    ELSE IF Len(segs) = 1 THEN segs[1]
    ELSE segs[1] \o <<"/">> \o joinSlash(Tail(segs))

RECURSIVE normalizeString(_, _, _)
normalizeString(segs, acc, allowAboveRoot) ==
    IF segs = <<>> THEN acc
    ELSE LET seg == Head(segs) IN
         IF seg = <<>> \/ seg = <<".">>
         THEN normalizeString(Tail(segs), acc, allowAboveRoot)
         ELSE IF seg = <<".", ".">>
         THEN IF acc # <<>> /\ acc[Len(acc)] # <<".", ".">>
              THEN normalizeString(Tail(segs), SubSeq(acc, 1, Len(acc) - 1), allowAboveRoot)
              ELSE IF allowAboveRoot
              THEN normalizeString(Tail(segs), Append(acc, seg), allowAboveRoot)
              ELSE normalizeString(Tail(segs), acc, allowAboveRoot)
         ELSE normalizeString(Tail(segs), Append(acc, seg), allowAboveRoot)

normalize(p) ==
    IF p = <<>> THEN <<".">>
    ELSE LET isAbsolute == p[1] = "/"
             trailing   == p[Len(p)] = "/"
             body       == joinSlash(normalizeString(splitSlash(p), <<>>, ~isAbsolute))
         IN  IF body = <<>>
             THEN IF isAbsolute THEN <<"/">>
                  ELSE IF trailing THEN <<".", "/">> ELSE <<".">>
             ELSE (IF isAbsolute THEN <<"/">> ELSE <<>>) \o body \o
                  (IF trailing THEN <<"/">> ELSE <<>>)

\* join(...args) for string arguments
join(args) ==
    LET nonEmpty == SelectSeq(args, LAMBDA a : a # <<>>)
    IN  IF nonEmpty = <<>> THEN <<".">> ELSE normalize(joinSlash(nonEmpty))

----------------------------------------------------------------------------
(* JavaScript values: undefined, strings and booleans                      *)

Undefined == [t |-> "undefined", v |-> <<>>]
Str(s)    == [t |-> "string", v |-> s]
Bool(b)   == [t |-> "boolean", v |-> b]

\* ToBoolean
Truthy(x) ==
    CASE x.t = "undefined" -> FALSE
      [] x.t = "string"    -> x.v # <<>>
      [] x.t = "boolean"   -> x.v

\* a || b
Or(a, b) == IF Truthy(a) THEN a ELSE b

\* ToString, as template literals and startsWith apply it
ToStr(x) ==
    CASE x.t = "undefined" -> <<"u","n","d","e","f","i","n","e","d">>
      [] x.t = "string"    -> x.v
      [] x.t = "boolean"   -> IF x.v THEN <<"t","r","u","e">> ELSE <<"f","a","l","s","e">>

----------------------------------------------------------------------------
(* Store.constructor: every setting from its environment variable first,   *)
(* then the config field, then the default.                                *)

DefaultProtocol == <<"h","t","t","p","s",":">>
ProviderDomain  == <<".","m","y","q","c","l","o","u","d",".","c","o","m">>
TrueStr         == <<"t","r","u","e">>

\* `${protocol}//${domain}`
domainHost(protocol, domain) == protocol \o <<"/", "/">> \o domain

\* `${protocol}//${bucket}.cos.${region}.myqcloud.com`
bucketHost(protocol, bucket, region) ==
    protocol \o <<"/", "/">> \o ToStr(bucket) \o <<".","c","o","s",".">> \o
    ToStr(region) \o ProviderDomain

\* privateHost without the blank test
privateHostNoTrim(customHost) == IF Truthy(customHost) THEN customHost ELSE Undefined

privateHost(customHost) ==
    IF Truthy(customHost) /\ trim(customHost.v) # <<>> THEN customHost ELSE Undefined

\* publicHost with the custom domain tried before the asset host
publicHostDomainFirst(e, c, protocol, domain, bucket, region) ==
    IF domain # <<>> THEN Str(domainHost(protocol, domain))
    ELSE Or(Or(e.COS_ASSET_HOST, c.assetHost), Str(bucketHost(protocol, bucket, region)))

publicHost(e, c, protocol, domain, bucket, region) ==
    Or(Or(e.COS_ASSET_HOST, c.assetHost),
       Str(IF domain # <<>> THEN domainHost(protocol, domain)
           ELSE bucketHost(protocol, bucket, region)))

constructor(e, c) ==
    LET bucket   == Or(e.COS_BUCKET, c.bucket)
        region   == Or(e.COS_REGION, c.region)
        prefix   == stripLeadingSlash(Or(Or(e.COS_PATH_PREFIX, c.pathPrefix), Str(<<>>)).v)
        domain   == Or(Or(e.COS_DOMAIN, c.domain), Str(<<>>)).v
        protocol == Or(Or(e.COS_PROTOCOL, c.protocol), Str(DefaultProtocol)).v
        private  == Or(Or(Bool(e.COS_PRIVATE_STORAGE = Str(TrueStr)), c.privateStorage),
                       Bool(FALSE))
    IN  [bucket |-> bucket, region |-> region, pathPrefix |-> prefix,
         domain |-> domain, protocol |-> protocol, privateStorage |-> private,
         host |-> IF Truthy(private)
                  THEN privateHost(Or(e.COS_ASSET_HOST, c.assetHost))
                  ELSE publicHost(e, c, protocol, domain, bucket, region)]

----------------------------------------------------------------------------
(* The base class the adapter extends (ghost-storage-base), as save calls  *)
(* it: getTargetDir(baseDir) is baseDir/YYYY/MM, getUniqueFileName is the  *)
(* directory joined with the first free name, name-i.ext, by exists.       *)

Year  == <<"2","0","2","6">>
Month == <<"1","1">>

getTargetDir(baseDir) ==
    IF baseDir # <<>> THEN join(<<baseDir, Year, Month>>) ELSE join(<<Year, Month>>)

\* zero-based position of the last dot of s, -1 when absent
lastIndexOfDot(s) ==
    IF \E i \in DOMAIN s : s[i] = "."
    THEN (CHOOSE i \in DOMAIN s : s[i] = "." /\ \A j \in (i+1)..Len(s) : s[j] # ".") - 1
    ELSE -1

\* path.extname for a name without directory part
extname(name) ==
    IF lastIndexOfDot(name) <= 0 THEN <<>> ELSE substring(name, lastIndexOfDot(name))

\* path.basename(name, ext)
basename(name, ext) == substringTo(name, Len(name) - Len(ext))

\* fileName.replace(/[^\w@.]/gi, '-')
getSanitizedFileName(s) ==
    [i \in 1..Len(s) |-> IF IsWordChar(s[i]) \/ s[i] \in {"@", "."} THEN s[i] ELSE "-"]

DigitChars == <<"0","1","2","3","4","5","6","7","8","9">>

\* name + ('-' + i when i > 0) + ext
candidateName(imageName, i) ==
    LET ext  == extname(imageName)
        name == getSanitizedFileName(basename(imageName, ext))
    IN  name \o (IF i > 0 THEN <<"-", DigitChars[i + 1]>> ELSE <<>>) \o ext

----------------------------------------------------------------------------
(* The object store (COS): keys to objects.  A request is answered with an *)
(* error when the key is absent; any request may also fail in transport.   *)

NoBody == "undefined"
EmptyStore == [k \in {} |-> ""]
CacheMaxAge == 30 * 24 * 60 * 60

Object(body, hasHeaders, headers) ==
    [Body |-> body, hasHeaders |-> hasHeaders, headers |-> headers]

\* the object putObject creates from {Body, ContentType, CacheControl}
putObject(file, type) ==
    Object(file, TRUE,
           [h \in {"content-type", "cache-control"} |->
               IF h = "content-type" THEN type
               ELSE "max-age=" \o ToString(CacheMaxAge)])

Has(st, k) == k \in DOMAIN st

Put(st, k, obj) == [x \in DOMAIN st \cup {k} |-> IF x = k THEN obj ELSE st[x]]

Remove(st, k) == [x \in DOMAIN st \ {k} |-> st[x]]

CosError(code) == [t |-> "error", name |-> "CosError", v |-> <<code>>]

\* the error of a get request for k, when one is reported
requestError(st, k, transportFails) ==
    IF transportFails THEN CosError("NetworkError") ELSE CosError("NoSuchKey")

----------------------------------------------------------------------------
(* Bounds and the inputs the operations are called with                    *)

MaxOps      == 3    \* calls of save, exists, delete and read in one run
MaxSuffix   == 1    \* largest i of name-i.ext that getUniqueFileName tries
MaxRequests == 1    \* requests the serve handler receives in one run
MaxConfigSaves == 1 \* saves tried under each configuration of ConfigSpec

HostE  == <<"/","/","e">>
HostC  == <<"/","/","c">>
Blank  == <<" ">>
HttpP  == <<"h","t","t","p",":">>

EnvSpace ==
    [COS_ASSET_HOST : {Undefined, Str(HostE)}, COS_PATH_PREFIX : {Undefined},
     COS_DOMAIN : {Undefined, Str(<<"e">>)}, COS_PROTOCOL : {Undefined, Str(<<"f",":">>)},
     COS_PRIVATE_STORAGE : {Undefined, Str(TrueStr)},
     COS_BUCKET : {Undefined}, COS_REGION : {Undefined}]

ConfigSpace ==
    [assetHost : {Undefined, Str(Blank), Str(HostC)},
     pathPrefix : {Undefined, Str(<<"/","p">>), Str(<<"/","/","p">>)},
     domain : {Undefined, Str(<<"d">>)}, protocol : {Undefined, Str(HttpP)},
     privateStorage : {Undefined, Bool(TRUE)},
     bucket : {Str(<<"b">>)}, region : {Str(<<"r">>)}]

\* the configurations that differ in mode and path prefix only
PlainEnv(e) ==
    e.COS_ASSET_HOST = Undefined /\ e.COS_DOMAIN = Undefined /\ e.COS_PROTOCOL = Undefined
PlainConfig(c) ==
    c.assetHost = Undefined /\ c.domain = Undefined /\ c.protocol = Undefined /\
    c.privateStorage = Undefined

ImageNames == {<<"a",".","j","p","g">>, <<"A",".","j","p","g">>}
Bodies     == {"img1", "img2"}
Images     == [name : ImageNames, type : {"image/jpeg"}, content : Bodies]
TargetDirs == {Undefined, Str(<<"/","d">>)}

\* objects that were in the bucket before the adapter was configured
LegacyKey == <<"d","/","A",".","J","p","g">>
InitialStores ==
    {EmptyStore, [k \in {LegacyKey} |-> Object("old", TRUE, [h \in {"etag"} |-> "e1"])]}

----------------------------------------------------------------------------
(* The promise operations.  Each is one store request and its callback;    *)
(* `last` records the call that completed last and how its promise ended.  *)

Result(op, fileName, targetDir, path, key, requests, storeErr, storeFailed, outcome, value) ==
    [op |-> op, fileName |-> fileName, targetDir |-> targetDir, path |-> path,
     key |-> key, requests |-> requests, storeErr |-> storeErr,
     storeFailed |-> storeFailed, outcome |-> outcome, value |-> value]

NoCall == Result("none", <<>>, Undefined, Undefined, Undefined, 0, FALSE, FALSE, "none", Undefined)
NoSave == [valid |-> FALSE]

JsError(name, msg) == [t |-> "error", name |-> name, v |-> msg]
BodyValue(b) == [t |-> "body", v |-> b]

\* join(targetDir, fileName) throws a TypeError unless both are strings
joinThrows(targetDir) == targetDir.t # "string"

\* const directory = targetDir || this.getTargetDir(this.pathPrefix)
directoryOf(targetDir) == Or(targetDir, Str(getTargetDir(self.pathPrefix))).v

\* the key exists and delete send: stripLeadingSlash(join(directory, fileName))
objectKey(directory, fileName) == stripLeadingSlash(join(<<directory, fileName>>))

\* the URL save resolves with
finalUrl(normalizedFileName) ==
    IF Truthy(self.privateStorage) /\ self.host = Undefined
    THEN <<"/">> \o (IF self.pathPrefix # <<>> THEN self.pathPrefix \o <<"/">> ELSE <<>>)
         \o normalizedFileName
    ELSE ToStr(self.host) \o <<"/">> \o normalizedFileName

\* the key save uploads to
uploadKey(fileName) == stripLeadingSlash(toLowerCase(fileName))

\* probeResult resolving true in both branches
probeResultTrue(err) == Bool(TRUE)

\* the boolean exists and delete resolve with
probeResult(err) == IF err THEN Bool(FALSE) ELSE Bool(TRUE)

exists(fileName, targetDir) ==
    /\ ops < MaxOps
    /\ ops' = ops + 1
    /\ IF joinThrows(targetDir)
       THEN last' = Result("exists", fileName, targetDir, Undefined, Undefined, 0,
                           FALSE, FALSE, "throw", JsError("TypeError", <<"ERR_INVALID_ARG_TYPE">>))
       ELSE \E transportFails \in BOOLEAN :
              LET key == objectKey(targetDir.v, fileName)
                  err == transportFails \/ ~Has(store, key)
              IN  last' = Result("exists", fileName, targetDir, Undefined, Str(key), 1,
                                 err, transportFails, "resolve", probeResult(err))
    /\ UNCHANGED <<env, config, self, store, lastSave, delCalled, delDone, serveVars>>

delete(fileName, targetDir) ==
    /\ ops < MaxOps
    /\ ops' = ops + 1
    /\ \E err \in BOOLEAN :
         LET key == objectKey(directoryOf(targetDir), fileName)
         IN  /\ last' = Result("delete", fileName, targetDir, Undefined, Str(key), 1,
                               err, err, "resolve", probeResult(err))
             /\ store' = IF err THEN store ELSE Remove(store, key)
             /\ delCalled' = delCalled \cup {key}
             /\ delDone' = IF err THEN delDone ELSE delDone \cup {key}
    /\ UNCHANGED <<env, config, self, lastSave, serveVars>>

\* getUniqueFileName can return name-i: every earlier name was reported taken
canGenerate(image, directory, i) ==
    \A j \in 0..(i - 1) : Has(store, objectKey(directory, candidateName(image.name, j)))

save(image, targetDir) ==
    /\ ops < MaxOps
    /\ ops' = ops + 1
    /\ \E i \in 0..MaxSuffix, readFails \in BOOLEAN, putFails \in BOOLEAN :
         LET directory == directoryOf(targetDir)
             genName   == candidateName(image.name, i)
             fileName  == join(<<directory, genName>>)
             normalizedFileName == toLowerCase(fileName)
             key       == uploadKey(fileName)
             lookupFailed == Has(store, objectKey(directory, genName))
         IN  /\ canGenerate(image, directory, i)
             /\ IF readFails
                THEN /\ ~putFails
                     /\ last' = Result("save", fileName, targetDir, Undefined, Undefined, 0,
                                       FALSE, lookupFailed, "reject",
                                       JsError("Error", <<"ENOENT">>))
                     /\ UNCHANGED <<store, lastSave, delCalled, delDone>>
                ELSE IF putFails
                THEN /\ last' = Result("save", fileName, targetDir, Undefined, Str(key), 1,
                                       TRUE, TRUE, "reject", CosError("NetworkError"))
                     /\ UNCHANGED <<store, lastSave, delCalled, delDone>>
                ELSE /\ store' = Put(store, key, putObject(image.content, image.type))
                     /\ last' = Result("save", fileName, targetDir, Undefined, Str(key), 1,
                                       FALSE, lookupFailed, "resolve",
                                       Str(finalUrl(normalizedFileName)))
                     /\ lastSave' = [valid |-> TRUE, genName |-> genName,
                                     directory |-> directory, fileName |-> fileName,
                                     key |-> key, url |-> finalUrl(normalizedFileName),
                                     body |-> image.content]
                     /\ delCalled' = {}
                     /\ delDone' = {}
    /\ UNCHANGED <<env, config, self, serveVars>>

NotStored == <<" ","i","s"," ","n","o","t"," ","s","t","o","r","e","d"," ","i","n"," ","C","O","S">>

\* !path.startsWith(this.host), the host converted to a string
notManaged(path) == ~startsWith(path, ToStr(self.host))

read(options) ==
    /\ ops < MaxOps
    /\ ops' = ops + 1
    /\ LET path == removeTrailingSlash(Or(options, Str(<<>>)).v)
       IN  IF notManaged(path)
           THEN last' = Result("read", <<>>, Undefined, options, Undefined, 0, FALSE, FALSE,
                               "reject", JsError("Error", path \o NotStored))
           ELSE IF self.host = Undefined
           THEN last' = Result("read", <<>>, Undefined, options, Undefined, 0, FALSE, FALSE,
                               "reject", JsError("TypeError", <<"Cannot read properties of undefined">>))
           ELSE \E transportFails \in BOOLEAN :
                  LET key == stripLeadingSlash(substring(path, Len(ToStr(self.host))))
                      err == transportFails \/ ~Has(store, key)
                  IN  last' = IF err
                              THEN Result("read", <<>>, Undefined, options, Str(key), 1,
                                          TRUE, transportFails, "reject",
                                          requestError(store, key, transportFails))
                              ELSE Result("read", <<>>, Undefined, options, Str(key), 1,
                                          FALSE, FALSE, "resolve",
                                          BodyValue(store[key].Body))
    /\ UNCHANGED <<env, config, self, store, lastSave, delCalled, delDone, serveVars>>

----------------------------------------------------------------------------
(* The serve handler: (req, res, next) => ..., one action per callback.    *)
(* trace lists the store requests of the current invocation in the order   *)
(* they were issued; next(err) appends err to nextCalls.                   *)

EmptyHeaders == [h \in {} |-> ""]
FreshResponse == [status |-> 200, headers |-> EmptyHeaders, body |-> NoBody, sent |-> FALSE]
NoLocals == [key |-> <<>>, variations |-> <<>>, index |-> 0, err |-> Undefined,
             changed |-> FALSE, failed |-> FALSE]

ReqError(code, n) == [t |-> "error", name |-> "CosError", v |-> <<code>>, at |-> n]
FileNotFound == JsError("Error", <<"File not found">>)
NextNotDefined == JsError("ReferenceError", <<"next is not defined">>)

\* the answer to the request issued last
answerFor(transportFails) ==
    IF transportFails THEN ReqError("NetworkError", Len(trace))
    ELSE ReqError("NoSuchKey", Len(trace))

Answered(state) == [trace EXCEPT ![Len(trace)].state = state]
IssueAfter(state, kind, key) ==
    Append(Answered(state), [kind |-> kind, key |-> key, state |-> "pending"])

\* part.replace(/\b\w/g, l => l.toUpperCase())
upperAtWordStart(part) ==
    [i \in 1..Len(part) |->
        IF IsWordChar(part[i]) /\ (i = 1 \/ ~IsWordChar(part[i - 1]))
        THEN toUpperChar(part[i]) ELSE part[i]]

\* part.replace(/[-_]\w/g, l => l.toUpperCase()), matches taken left to right
RECURSIVE upperAfterDash(_)
upperAfterDash(part) ==
    IF Len(part) < 2 THEN part
    ELSE IF part[1] \in {"-", "_"} /\ IsWordChar(part[2])
    THEN <<part[1], toUpperChar(part[2])>> \o upperAfterDash(SubSeq(part, 3, Len(part)))
    ELSE <<part[1]>> \o upperAfterDash(Tail(part))

hasImageExtension(part) ==
    \/ includes(part, <<".","j","p","g">>)
    \/ includes(part, <<".","p","n","g">>)
    \/ includes(part, <<".","g","i","f">>)

reconstructOriginalCase(lowercaseKey) ==
    LET parts == splitSlash(lowercaseKey)
    IN  joinSlash([i \in 1..Len(parts) |->
                     IF hasImageExtension(parts[i])
                     THEN upperAfterDash(upperAtWordStart(parts[i]))
                     ELSE parts[i]])

\* const key = stripLeadingSlash(stripEndingSlash(this.pathPrefix) + req.path)
primaryKey(path) == stripLeadingSlash(stripEndingSlash(self.pathPrefix) \o path)

\* variationsOf with the reconstruction tried first
variationsOfReversed(key) == <<reconstructOriginalCase(key), key>>

\* the variations serve hands to tryKeyVariations
variationsOf(key) == <<key, reconstructOriginalCase(key)>>

\* res.status(404); next(err)
notFound(err) ==
    /\ res' = [res EXCEPT !.status = 404]
    /\ nextCalls' = Append(nextCalls, err)
    /\ UNCHANGED <<thrown, served>>
    /\ pc' = "done"

\* sendFileResponse without the copy of the headers
sendFileResponseNoHeaders(key, data) ==
    /\ served' = Str(key)
    /\ pc' = "done"
    /\ UNCHANGED nextCalls
    /\ IF data.Body # NoBody
       THEN /\ res' = [res EXCEPT !.body = data.Body, !.sent = TRUE]
            /\ UNCHANGED thrown
       ELSE /\ res' = [res EXCEPT !.status = 404]
            /\ thrown' = NextNotDefined

\* sendFileResponse(res, data): the headers, then the body; without a body
\* the call of next, which is no name in scope there, throws
sendFileResponse(key, data) ==
    LET withHeaders == IF data.hasHeaders
                       THEN [h \in DOMAIN res.headers \cup DOMAIN data.headers |->
                               IF h \in DOMAIN data.headers THEN data.headers[h]
                               ELSE res.headers[h]]
                       ELSE res.headers
    IN  /\ served' = Str(key)
        /\ pc' = "done"
        /\ UNCHANGED nextCalls
        /\ IF data.Body # NoBody
           THEN /\ res' = [res EXCEPT !.headers = withHeaders, !.body = data.Body,
                                      !.sent = TRUE]
                /\ UNCHANGED thrown
           ELSE /\ res' = [res EXCEPT !.headers = withHeaders, !.status = 404]
                /\ thrown' = NextNotDefined

\* the callback serve passes to tryKeyVariations: (findErr, foundKey) => ...
foundCallback(state, findErr, foundKey, locals) ==
    /\ srv' = locals
    /\ IF Truthy(findErr) \/ ~Truthy(foundKey)
       THEN /\ notFound(locals.err)
            /\ trace' = Answered(state)
       ELSE /\ trace' = IssueAfter(state, "get", foundKey.v)
            /\ pc' = "retry"
            /\ UNCHANGED <<res, nextCalls, thrown, served>>

\* tryKeyVariations(variations, index, callback), entered from a callback
\* whose request was answered with `state`
tryKeyVariations(state, variations, index, locals) ==
    IF index >= Len(variations)
    THEN foundCallback(state, Str(<<"File not found">>), Undefined, locals)
    ELSE /\ trace' = IssueAfter(state, "head", variations[index + 1])
         /\ srv' = [locals EXCEPT !.index = index]
         /\ pc' = "lookup"
         /\ UNCHANGED <<res, nextCalls, thrown, served>>

serveRequest(path) ==
    /\ pc \in {"idle", "done"}
    /\ Len(req) < MaxRequests
    /\ req' = Append(req, path)
    /\ res' = FreshResponse
    /\ nextCalls' = <<>>
    /\ thrown' = Undefined
    /\ served' = Undefined
    /\ srv' = [NoLocals EXCEPT !.key = primaryKey(path),
                               !.variations = variationsOf(primaryKey(path))]
    /\ trace' = <<[kind |-> "get", key |-> primaryKey(path), state |-> "pending"]>>
    /\ pc' = "primary"
    /\ UNCHANGED <<env, config, self, store, apiVars, writes>>

\* the callback of the first getObject
primaryCallback ==
    /\ pc = "primary"
    /\ \E transportFails \in BOOLEAN :
         LET key == trace[Len(trace)].key
             err == transportFails \/ ~Has(store, key)
         IN  IF err
             THEN tryKeyVariations("err", srv.variations, 0,
                                   [srv EXCEPT !.err = answerFor(transportFails),
                                               !.failed = @ \/ transportFails])
             ELSE /\ sendFileResponse(key, store[key])
                  /\ trace' = Answered("ok")
                  /\ UNCHANGED srv
    /\ UNCHANGED <<env, config, self, store, apiVars, req, writes>>

\* the callback of a headObject of tryKeyVariations
lookupCallback ==
    /\ pc = "lookup"
    /\ \E transportFails \in BOOLEAN :
         LET key == trace[Len(trace)].key
             err == transportFails \/ ~Has(store, key)
         IN  IF err
             THEN tryKeyVariations("err", srv.variations, srv.index + 1,
                                   [srv EXCEPT !.failed = @ \/ transportFails])
             ELSE foundCallback("ok", Undefined, Str(key), srv)
    /\ UNCHANGED <<env, config, self, store, apiVars, req, writes>>

\* the callback of the second getObject
retryCallback ==
    /\ pc = "retry"
    /\ \E transportFails \in BOOLEAN :
         LET key == trace[Len(trace)].key
             err == transportFails \/ ~Has(store, key)
         IN  IF err
             THEN /\ notFound(answerFor(transportFails))
                  /\ trace' = Answered("err")
                  /\ srv' = [srv EXCEPT !.failed = @ \/ transportFails]
             ELSE /\ sendFileResponse(key, store[key])
                  /\ trace' = Answered("ok")
                  /\ UNCHANGED srv
    /\ UNCHANGED <<env, config, self, store, apiVars, req, writes>>

----------------------------------------------------------------------------
(* Other writers of the bucket (another process, the console): objects     *)
(* appear and disappear while the handler runs.                            *)

MaxWrites == 2    \* writes to the bucket by others in one run

ServePaths == {<<"/","d","/","a",".","j","p","g">>, <<"/","x">>}
WriteKeys  == {<<"d","/","a",".","j","p","g">>,
               <<"p","/","d","/","a",".","j","p","g">>,
               <<"p","/","d","/","A",".","J","p","g">>}
WriteObjects ==
    {Object("img1", TRUE, [h \in {"content-type"} |-> "image/jpeg"]),
     Object(NoBody, TRUE, [h \in {"content-type"} |-> "image/jpeg"]),
     Object("img2", FALSE, EmptyHeaders)}

inFlight == pc \notin {"idle", "done"}

storeWrite(k, obj) ==
    /\ writes < MaxWrites
    /\ writes' = writes + 1
    /\ store' = Put(store, k, obj)
    /\ srv' = [srv EXCEPT !.changed = @ \/ pc # "idle"]
    /\ UNCHANGED <<env, config, self, apiVars, pc, req, res, nextCalls, thrown, trace, served>>

storeRemove(k) ==
    /\ writes < MaxWrites
    /\ Has(store, k)
    /\ writes' = writes + 1
    /\ store' = Remove(store, k)
    /\ srv' = [srv EXCEPT !.changed = @ \/ pc # "idle"]
    /\ UNCHANGED <<env, config, self, apiVars, pc, req, res, nextCalls, thrown, trace, served>>

----------------------------------------------------------------------------
(* Specifications                                                          *)

Constructed(envs, configs, stores) ==
    /\ env \in envs
    /\ config \in configs
    /\ self = constructor(env, config)
    /\ store \in stores
    /\ last = NoCall
    /\ lastSave = NoSave
    /\ delCalled = {}
    /\ delDone = {}
    /\ ops = 0
    /\ pc = "idle"
    /\ req = <<>>
    /\ res = FreshResponse
    /\ nextCalls = <<>>
    /\ thrown = Undefined
    /\ trace = <<>>
    /\ srv = NoLocals
    /\ served = Undefined
    /\ writes = 0

\* an adapter constructed from a configuration of mode and prefix
Init ==
    Constructed({e \in EnvSpace : PlainEnv(e)}, {c \in ConfigSpace : PlainConfig(c)},
                InitialStores)

\* the adapters with no prefix or the prefix "/p", on an empty bucket
ApiInit ==
    Constructed({e \in EnvSpace : PlainEnv(e)},
                {c \in ConfigSpace :
                    PlainConfig(c) /\ c.pathPrefix \in {Undefined, Str(<<"/","p">>)}},
                {EmptyStore})

\* an adapter constructed from any configuration, on an empty bucket
InitAll == Constructed(EnvSpace, ConfigSpace, {EmptyStore})

\* the arguments a caller has at hand: a name that was never saved, and the
\* name and directory of the last save, as generated and as uploaded
CallArgs ==
    {<<<<"a",".","j","p","g">>, Undefined>>}
    \cup (IF lastSave.valid
          THEN {<<lastSave.genName, Str(lastSave.directory)>>,
                <<toLowerCase(lastSave.genName), Str(lastSave.directory)>>}
          ELSE {})
CallPaths ==
    {Undefined, Str(<<"/","x">>), Str(<<"u","n","d","e","f","i","n","e","d","/","x">>),
     Str(ToStr(self.host) \o <<"/","d","/","A",".","J","p","g">>)}
    \cup (IF lastSave.valid THEN {Str(lastSave.url)} ELSE {})

ApiNext ==
    \/ \E image \in Images, targetDir \in TargetDirs : save(image, targetDir)
    \/ \E args \in CallArgs : exists(args[1], args[2])
    \/ \E args \in CallArgs : delete(args[1], args[2])
    \/ \E options \in CallPaths : read(options)

ConfigNext ==
    \E image \in Images : ops < MaxConfigSaves /\ save(image, Undefined)

ServeNext ==
    \/ \E path \in ServePaths : serveRequest(path)
    \/ primaryCallback
    \/ lookupCallback
    \/ retryCallback
    \/ \E k \in WriteKeys, obj \in WriteObjects : storeWrite(k, obj)
    \/ \E k \in WriteKeys : storeRemove(k)

Next == ApiNext \/ ServeNext

Spec == Init /\ [][Next]_vars

\* the promise operations alone
ApiSpec == ApiInit /\ [][ApiNext]_vars

\* save under every configuration
ConfigSpec == InitAll /\ [][ConfigNext]_vars

\* the serve handler and the other writers of the bucket
ServeSpec == Init /\ [][ServeNext]_vars

\* the store answers every request it was sent
FairServeSpec ==
    ServeSpec /\ WF_vars(primaryCallback) /\ WF_vars(lookupCallback) /\ WF_vars(retryCallback)

----------------------------------------------------------------------------
(* Claims                                                                  *)

\* the key exists and delete derive from the name and directory of the last save
savedArgKey == objectKey(lastSave.directory, lastSave.genName)

\* C1: once save has resolved, a following exists call with the generated
\* file name and the same directory resolves true, provided the store does
\* not fail and no delete of that key happens in between.
SaveThenExists ==
    (/\ last.op = "exists"
     /\ lastSave.valid
     /\ last.fileName = lastSave.genName
     /\ last.targetDir = Str(lastSave.directory)
     /\ ~last.storeFailed
     /\ delCalled = {})
    => (last.outcome = "resolve" /\ last.value = Bool(TRUE))

\* C2: after save has resolved and a following delete of the same key has
\* completed (the store carried the deletion out), a following exists call
\* for that key resolves false.
SaveDeleteThenExists ==
    (/\ last.op = "exists"
     /\ last.outcome = "resolve"
     /\ lastSave.valid
     /\ last.key.v \in delDone
     /\ last.key.v \in {lastSave.key, savedArgKey})
    => last.value = Bool(FALSE)

\* the object save uploaded was deleted and exists then reported it absent
SaveDeleteThenExistsWitness ==
    /\ last.op = "exists"
    /\ last.outcome = "resolve"
    /\ lastSave.valid
    /\ last.key.v = lastSave.key
    /\ last.key.v \in delDone
    /\ ~last.storeFailed
    /\ last.value = Bool(FALSE)

publicMode == ~Truthy(self.privateStorage)

\* C3: in public mode, if save resolves with URL u then read({path: u})
\* resolves with the uploaded payload, the key read derives from u being the
\* key save uploaded to (the store not failing, the object not deleted).
RoundTrip ==
    (/\ last.op = "read"
     /\ lastSave.valid
     /\ publicMode
     /\ last.path = Str(lastSave.url)
     /\ ~last.storeFailed
     /\ delCalled = {})
    => (/\ last.outcome = "resolve"
        /\ last.key = Str(lastSave.key)
        /\ last.value = BodyValue(lastSave.body))

\* the settings as the claims resolve them: environment variable, then config
suppliedAssetHost == Or(env.COS_ASSET_HOST, config.assetHost)
suppliedDomain    == Or(env.COS_DOMAIN, config.domain)
suppliedProtocol  == Or(Or(env.COS_PROTOCOL, config.protocol), Str(DefaultProtocol))
suppliedBucket    == Or(env.COS_BUCKET, config.bucket)
suppliedRegion    == Or(env.COS_REGION, config.region)
privateEnabled    == env.COS_PRIVATE_STORAGE = Str(TrueStr) \/ Truthy(config.privateStorage)

expectedHost ==
    IF Truthy(suppliedAssetHost) THEN suppliedAssetHost.v
    ELSE IF Truthy(suppliedDomain)
    THEN suppliedProtocol.v \o <<"/","/">> \o suppliedDomain.v
    ELSE suppliedProtocol.v \o <<"/","/">> \o suppliedBucket.v \o <<".","c","o","s",".">>
         \o suppliedRegion.v \o <<".","m","y","q","c","l","o","u","d",".","c","o","m">>

savedResolved == last.op = "save" /\ last.outcome = "resolve"

\* C4: in public mode a successful save returns exactly host + "/" + the
\* lowercased generated file name, the host being the asset host if one is
\* supplied, else protocol//domain if a domain is configured, else
\* protocol//bucket.cos.region.myqcloud.com, each setting from its
\* environment variable before the config field.
PublicUrl ==
    (savedResolved /\ ~privateEnabled)
    => last.value = Str(expectedHost \o <<"/">> \o toLowerCase(last.fileName))

\* a public save under a custom domain from the environment and a config protocol
PublicUrlWitness ==
    /\ savedResolved
    /\ ~privateEnabled
    /\ ~Truthy(suppliedAssetHost)
    /\ env.COS_DOMAIN # Undefined
    /\ config.domain # Undefined
    /\ config.protocol # Undefined
    /\ last.fileName # toLowerCase(last.fileName)

nonBlankAssetHost == Truthy(suppliedAssetHost) /\ trim(suppliedAssetHost.v) # <<>>

\* C5: with private storage enabled and no non-blank asset host the host is
\* unset and every successful save returns "/" + (pathPrefix + "/" if
\* non-empty) + lowercased file name; in every other configuration save
\* returns the host + "/" + lowercased file name.
UrlMode ==
    IF privateEnabled /\ ~nonBlankAssetHost
    THEN /\ self.host = Undefined
         /\ savedResolved =>
              last.value = Str(<<"/">> \o
                               (IF self.pathPrefix # <<>> THEN self.pathPrefix \o <<"/">>
                                ELSE <<>>) \o toLowerCase(last.fileName))
    ELSE /\ self.host.t = "string"
         /\ savedResolved =>
              last.value = Str(self.host.v \o <<"/">> \o toLowerCase(last.fileName))

\* a private save under a blank asset host and a path prefix
UrlModeWitness ==
    /\ savedResolved
    /\ privateEnabled
    /\ config.assetHost = Str(Blank)
    /\ env.COS_ASSET_HOST = Undefined
    /\ self.pathPrefix # <<>>
    /\ last.value.v[1] = "/"

\* C6: exists and delete never raise and never reject: each resolves to a
\* boolean, true exactly when the single store request reported no error.
ProbesNeverRaise ==
    last.op \in {"exists", "delete"}
    => (/\ last.outcome = "resolve"
        /\ last.requests = 1
        /\ last.value = Bool(~last.storeErr))

\* the path read tests, and whether it starts with the configured host
readPath == removeTrailingSlash(Or(last.path, Str(<<>>)).v)
startsWithHost == self.host.t = "string" /\ startsWith(readPath, self.host.v)

\* C7: read with a path that does not start with the configured host fails
\* with "<path> is not stored in COS" and issues no fetch, in every
\* configuration, the host unset included.
ReadNotManaged ==
    (last.op = "read" /\ ~startsWithHost)
    => (/\ last.outcome = "reject"
        /\ last.value = JsError("Error", readPath \o NotStored)
        /\ last.requests = 0)

\* the request the handler is working on, its primary key and the variant
currentPath == req[Len(req)]
currentKey  == primaryKey(currentPath)
variantKey  == reconstructOriginalCase(currentKey)

\* the response carries the body and every header of obj, and nothing was
\* forwarded to next
responded(obj) ==
    /\ res.sent
    /\ res.body = obj.Body
    /\ res.status = 200
    /\ obj.hasHeaders =>
         \A h \in DOMAIN obj.headers :
            h \in DOMAIN res.headers /\ res.headers[h] = obj.headers[h]
    /\ nextCalls = <<>>

ServeFailures ==
    pc = "done"
    => /\ thrown = Undefined
       /\ ~(res.sent /\ nextCalls # <<>>)
       /\ ~res.sent => (res.status = 404 /\ Len(nextCalls) = 1)
       /\ (served # Undefined /\ ~res.sent) => nextCalls = <<FileNotFound>>

requestsOf(kind) == {i \in DOMAIN trace : trace[i].kind = kind}

\* the order of the store requests of one invocation
ProtocolOrder ==
    /\ Cardinality(requestsOf("get")) <= 2
    /\ Cardinality(requestsOf("head")) <= 2
    /\ \A i \in DOMAIN trace :
         /\ i < Len(trace) => trace[i].state # "pending"
         /\ i = 1 => (trace[i].kind = "get" /\ trace[i].key = currentKey)
         /\ i > 1 => trace[1].state = "err"
         /\ (i > 1 /\ trace[i].kind = "head") =>
              /\ trace[i].key = <<currentKey, variantKey>>[i - 1]
              /\ i > 2 => (trace[i - 1].kind = "head" /\ trace[i - 1].state = "err")
         /\ (i > 1 /\ trace[i].kind = "get") =>
              /\ trace[i - 1].kind = "head"
              /\ trace[i - 1].state = "ok"
              /\ trace[i].key = trace[i - 1].key
         /\ (trace[i].kind = "head" /\ trace[i].state = "ok" /\ i < Len(trace)) =>
              (i + 1 = Len(trace) /\ trace[i + 1].kind = "get")
    /\ (pc = "done" /\ Cardinality(requestsOf("head")) = 2
          /\ \A i \in requestsOf("head") : trace[i].state = "err")
         => (/\ res.status = 404
             /\ ~res.sent
             /\ nextCalls = <<srv.err>>
             /\ srv.err.t = "error"
             /\ srv.err.at = 1)

\* C10: lookups are issued only after the primary fetch failed, in the order
\* primary key, title-case reconstruction, one at a time, stopping at the
\* first that succeeds; the second fetch targets that candidate; if every
\* lookup fails the handler responds 404 and forwards the error of the
\* primary fetch; at most two fetches and two lookups are issued and the
\* invocation ends when the store answers every request.
FallbackProtocol == []ProtocolOrder /\ (inFlight ~> pc = "done")

\* both lookups were needed and the retry fetch was issued for the variant
FallbackProtocolWitness ==
    /\ pc = "done"
    /\ Len(trace) = 4
    /\ trace[3].state = "ok"
    /\ trace[4].key = variantKey
    /\ variantKey # currentKey
    /\ res.sent

\* the keys of the store requests of the last promise operation and of the
\* current invocation of the serve handler
keysSent ==
    (IF last.requests > 0 THEN {last.key.v} ELSE {})
    \cup {trace[i].key : i \in DOMAIN trace}

beginsWithSlash(k) == k # <<>> /\ Head(k) = "/"

\* C11: no object key the adapter sends to the store, in save, exists,
\* delete, read, the serve primary fetch, the variant lookups or the retry
\* fetch, begins with a slash, and the key save uploads to is in lower case.
KeysNeverAbsolute ==
    /\ \A k \in keysSent : ~beginsWithSlash(k)
    /\ (last.op = "save" /\ last.requests > 0) => last.key.v = toLowerCase(last.key.v)

=============================================================================
